---- MODULE Spec2Model ----
(***************************************************************************)
(* Model of the Meta Lead Ads fetcher: src/src/fetcher.py (fetch_leads,    *)
(* normalize_lead, parse_iso_timestamp, write_output, main) and            *)
(* src/src/utils/db.py (LeadDB).                                           *)
(*                                                                         *)
(* Python values are modelled as follows.  A str is a TLA+ string, the     *)
(* value None is the reserved string "None" (never used as data), a list   *)
(* is a sequence, a dict with fixed keys is a record.                      *)
(***************************************************************************)
EXTENDS Integers, Sequences, FiniteSets, TLC

None == "None"

\* Python truthiness of an Optional[str]: None and "" are falsy.
Falsy(s) == s = None \/ s = ""

\* Python `a or b` on Optional[str].
Or(a, b) == IF Falsy(a) THEN b ELSE a

Whitespace == {" ", "\t", "\n"}

RECURSIVE lstrip(_)
lstrip(s) ==
    IF Len(s) > 0 /\ SubSeq(s, 1, 1) \in Whitespace
    THEN lstrip(SubSeq(s, 2, Len(s)))
    ELSE s

RECURSIVE rstrip(_)
rstrip(s) ==
    IF Len(s) > 0 /\ SubSeq(s, Len(s), Len(s)) \in Whitespace
    THEN rstrip(SubSeq(s, 1, Len(s) - 1))
    ELSE s

\* str.strip()
strip(s) == rstrip(lstrip(s))

RECURSIVE Pow2(_)
Pow2(n) == IF n <= 0 THEN 1 ELSE 2 * Pow2(n - 1)

(***************************************************************************)
(* parse_iso_timestamp.  A datetime is [ok, date, time, aware, off]:       *)
(* ok = FALSE stands for the ValueError the function raises; date is       *)
(* YYYYMMDD and time is HHMMSS as integers; aware tells whether tzinfo is  *)
(* set, and off is then the UTC offset in minutes.                         *)
(***************************************************************************)
Digits == {"0", "1", "2", "3", "4", "5", "6", "7", "8", "9"}

DigitVal(c) ==
    CASE c = "0" -> 0 [] c = "1" -> 1 [] c = "2" -> 2 [] c = "3" -> 3
      [] c = "4" -> 4 [] c = "5" -> 5 [] c = "6" -> 6 [] c = "7" -> 7
      [] c = "8" -> 8 [] c = "9" -> 9

CharAt(s, i) == SubSeq(s, i, i)

AllDigits(s, i, j) == \A k \in i..j : CharAt(s, k) \in Digits

RECURSIVE NumAt(_, _, _)
NumAt(s, i, j) ==
    IF j < i THEN 0 ELSE 10 * NumAt(s, i, j - 1) + DigitVal(CharAt(s, j))

IsLeap(y) == (y % 4 = 0 /\ y % 100 # 0) \/ y % 400 = 0

DaysInMonth(y, m) ==
    IF m = 2 THEN (IF IsLeap(y) THEN 29 ELSE 28)
    ELSE IF m \in {4, 6, 9, 11} THEN 30 ELSE 31

BadTime == [ok |-> FALSE, date |-> 0, time |-> 0, aware |-> FALSE, off |-> 0]

DateTime(date, time, aware, off) ==
    [ok |-> TRUE, date |-> date, time |-> time, aware |-> aware, off |-> off]

\* The calendar date "YYYY-MM-DD" in s[1..10] is well formed.
DateOk(s) ==
    /\ Len(s) >= 10
    /\ AllDigits(s, 1, 4) /\ CharAt(s, 5) = "-"
    /\ AllDigits(s, 6, 7) /\ CharAt(s, 8) = "-"
    /\ AllDigits(s, 9, 10)
    /\ NumAt(s, 1, 4) >= 1
    /\ NumAt(s, 6, 7) \in 1..12
    /\ NumAt(s, 9, 10) \in 1..DaysInMonth(NumAt(s, 1, 4), NumAt(s, 6, 7))

\* "YYYY-MM-DDTHH:MM:SS" in s[1..19] is well formed.
DateTimeOk(s) ==
    /\ Len(s) >= 19
    /\ DateOk(s)
    /\ CharAt(s, 11) = "T"
    /\ AllDigits(s, 12, 13) /\ CharAt(s, 14) = ":"
    /\ AllDigits(s, 15, 16) /\ CharAt(s, 17) = ":"
    /\ AllDigits(s, 18, 19)
    /\ NumAt(s, 12, 13) <= 23
    /\ NumAt(s, 15, 16) <= 59
    /\ NumAt(s, 18, 19) <= 59

DateOf(s) == NumAt(s, 1, 4) * 10000 + NumAt(s, 6, 7) * 100 + NumAt(s, 9, 10)

TimeOf(s) == NumAt(s, 12, 13) * 10000 + NumAt(s, 15, 16) * 100 + NumAt(s, 18, 19)

\* datetime.strptime(ts, "%Y-%m-%dT%H:%M:%SZ")
strptime_Z(ts) ==
    IF Len(ts) = 20 /\ DateTimeOk(ts)
    THEN DateTime(DateOf(ts), TimeOf(ts), FALSE, 0)
    ELSE BadTime

\* datetime.strptime(ts, "%Y-%m-%dT%H:%M:%S%z").replace(tzinfo=None):
\* the offset is parsed and then dropped, the wall-clock fields are kept.
strptime_z(ts) ==
    IF /\ Len(ts) = 24 /\ DateTimeOk(ts)
       /\ CharAt(ts, 20) \in {"+", "-"}
       /\ AllDigits(ts, 21, 24)
       /\ NumAt(ts, 21, 22) <= 23 /\ NumAt(ts, 23, 24) <= 59
    THEN DateTime(DateOf(ts), TimeOf(ts), FALSE, 0)
    ELSE BadTime

\* datetime.fromisoformat(ts): a date, a naive date-time, or a date-time
\* with a "+HH:MM" offset, which yields an aware datetime.
fromisoformat(ts) ==
    IF Len(ts) = 10 /\ DateOk(ts)
    THEN DateTime(DateOf(ts), 0, FALSE, 0)
    ELSE IF Len(ts) = 19 /\ DateTimeOk(ts)
    THEN DateTime(DateOf(ts), TimeOf(ts), FALSE, 0)
    ELSE IF /\ Len(ts) = 25 /\ DateTimeOk(ts)
            /\ CharAt(ts, 20) \in {"+", "-"}
            /\ AllDigits(ts, 21, 22) /\ CharAt(ts, 23) = ":"
            /\ AllDigits(ts, 24, 25)
            /\ NumAt(ts, 21, 22) <= 23 /\ NumAt(ts, 24, 25) <= 59
    THEN DateTime(DateOf(ts), TimeOf(ts), TRUE,
                  (IF CharAt(ts, 20) = "-" THEN -1 ELSE 1)
                      * (NumAt(ts, 21, 22) * 60 + NumAt(ts, 24, 25)))
    ELSE BadTime

parse_iso_timestamp(ts) ==
    IF ts = None THEN BadTime
    ELSE IF Len(ts) >= 1 /\ CharAt(ts, Len(ts)) = "Z" THEN strptime_Z(ts)
    ELSE IF Len(ts) >= 5 /\ CharAt(ts, Len(ts) - 4) \in {"+", "-"}
    THEN strptime_z(ts)
    ELSE fromisoformat(ts)

RECURSIVE DaysBeforeMonth(_, _)
DaysBeforeMonth(y, m) ==
    IF m <= 1 THEN 0 ELSE DaysBeforeMonth(y, m - 1) + DaysInMonth(y, m - 1)

\* Proleptic Gregorian ordinal of a YYYYMMDD date.
Ordinal(date) ==
    LET y == date \div 10000
        m == (date \div 100) % 100
        d == date % 100
    IN  365 * (y - 1) + ((y - 1) \div 4) - ((y - 1) \div 100)
            + ((y - 1) \div 400) + DaysBeforeMonth(y, m) + d

\* Seconds since midnight UTC of an aware datetime; may leave 0..86399.
UtcSeconds(dt) ==
    (dt.time \div 10000) * 3600 + ((dt.time \div 100) % 100) * 60
        + (dt.time % 100) - dt.off * 60

UtcDay(dt) == Ordinal(dt.date) + (UtcSeconds(dt) \div 86400)

\* a < b on datetimes.  Mixing a naive and an aware datetime raises
\* TypeError (CanCompare is FALSE); two naive ones compare by wall-clock
\* fields, two aware ones by instant.
CanCompare(a, b) == a.aware = b.aware

DtLess(a, b) ==
    IF a.aware
    THEN \/ UtcDay(a) < UtcDay(b)
         \/ UtcDay(a) = UtcDay(b) /\ (UtcSeconds(a) % 86400) < (UtcSeconds(b) % 86400)
    ELSE \/ a.date < b.date
         \/ a.date = b.date /\ a.time < b.time

(***************************************************************************)
(* normalize_lead.  A raw lead is [id, created_time, field_data];          *)
(* field_data is a sequence of [name, values].                             *)
(***************************************************************************)
\* fields.get(k) for the dict built by the comprehension: items whose name
\* is falsy are left out, a later item overwrites an earlier one with the
\* same name, and the value is (values or [None])[0].
FieldGet(field_data, k) ==
    LET idx == {j \in 1..Len(field_data) :
                    /\ ~Falsy(field_data[j].name)
                    /\ field_data[j].name = k}
    IN  IF idx = {} THEN None
        ELSE LET m == CHOOSE j \in idx : \A h \in idx : h <= j
             IN  IF field_data[m].values = <<>> THEN None
                 ELSE field_data[m].values[1]

\* The value None of normalize_lead's return: the record is rejected.
Rejected == [rejected |-> TRUE]

\* Name derivation without the .strip() of the joined names.
DeriveNameUnstripped(field_data) ==
    LET full == FieldGet(field_data, "full_name")
        first == Or(FieldGet(field_data, "first_name"), "")
        last == Or(FieldGet(field_data, "last_name"), "")
        combined == first \o " " \o last
    IN  IF ~Falsy(full) THEN full
        ELSE IF combined # "" THEN combined ELSE None

DeriveName(field_data) ==
    LET full == FieldGet(field_data, "full_name")
        first == Or(FieldGet(field_data, "first_name"), "")
        last == Or(FieldGet(field_data, "last_name"), "")
        combined == strip(first \o " " \o last)
    IN  IF ~Falsy(full) THEN full
        ELSE IF combined # "" THEN combined ELSE None

\* Phone derivation that does not fall back to phone_number_ext.
DerivePhoneNoExt(field_data) ==
    Or(FieldGet(field_data, "phone"), FieldGet(field_data, "phone_number"))

DerivePhone(field_data) ==
    Or(FieldGet(field_data, "phone"),
       Or(FieldGet(field_data, "phone_number"),
          FieldGet(field_data, "phone_number_ext")))

normalize_lead(raw) ==
    LET email == FieldGet(raw.field_data, "email")
        phone == DerivePhone(raw.field_data)
    IN  IF Falsy(email) /\ Falsy(phone) THEN Rejected
        ELSE [lead_id |-> raw.id,
              name |-> DeriveName(raw.field_data),
              email |-> email,
              phone |-> phone,
              created_time |-> raw.created_time]

(***************************************************************************)
(* LeadDB.  The table seen_leads is the sequence of its rows in rowid      *)
(* order; a column holding NULL holds None.                                *)
(***************************************************************************)
Row(lead_id, name, email, phone, created_time) ==
    [lead_id |-> lead_id, name |-> name, email |-> email, phone |-> phone,
     created_time |-> created_time]

\* SQL `column = ?`: true only when neither side is NULL and they are equal.
SqlEq(col, param) == col # None /\ param # None /\ col = param

\* is_seen as it would be with only `WHERE lead_id=?`.
is_seen_by_id(rows, lead_id, email, phone) ==
    \E j \in 1..Len(rows) : SqlEq(rows[j].lead_id, lead_id)

is_seen(rows, lead_id, email, phone) ==
    \E j \in 1..Len(rows) :
        \/ SqlEq(rows[j].lead_id, lead_id)
        \/ SqlEq(rows[j].email, email)
        \/ SqlEq(rows[j].phone, phone)

\* INSERT OR REPLACE: a row with the same lead_id is deleted and the new
\* row is added at the end.
InsertOrReplace(rows, row) ==
    Append(SelectSeq(rows, LAMBDA r : r.lead_id # row.lead_id), row)

\* INSERT OR IGNORE under PRIMARY KEY(lead_id).
InsertOrIgnore(rows, row) ==
    IF \E j \in 1..Len(rows) : rows[j].lead_id = row.lead_id
    THEN rows
    ELSE Append(rows, row)

\* mark_seen whose insert never reaches the table.
mark_seen_lost(rows, lead) == rows

\* mark_seen with a lead dict.
mark_seen(rows, lead) ==
    IF Falsy(lead.lead_id) THEN rows
    ELSE InsertOrIgnore(rows, Row(lead.lead_id, lead.name, lead.email,
                                  lead.phone, lead.created_time))

\* mark_seen with a bare lead_id string.
mark_seen_id(rows, lead_id) ==
    IF Falsy(lead_id) THEN rows
    ELSE InsertOrIgnore(rows, Row(lead_id, None, None, None, None))

\* fetch_all(limit).  An omitted limit (None) is passed as NoLimit, since a
\* TLA+ integer cannot be None.  `if limit:` is false for None and for 0, so
\* no LIMIT clause is added; a negative LIMIT means no limit in SQLite.
NoLimit == -1

fetch_all(rows, limit) ==
    IF limit = NoLimit \/ limit = 0 \/ limit < 0 THEN rows
    ELSE SubSeq(rows, 1, IF limit < Len(rows) THEN limit ELSE Len(rows))

(***************************************************************************)
(* Bounds of the model.                                                    *)
(***************************************************************************)
MaxRecords == 2
MaxPageSize == 2
MaxRuns == 2

(***************************************************************************)
(* Inputs.                                                                 *)
(***************************************************************************)
Field(name, value) == [name |-> name, values |-> <<value>>]

Raw(id, created_time, field_data) ==
    [id |-> id, created_time |-> created_time, field_data |-> field_data]

\* --since value used by the runs that set one (the example of the help text).
SinceCutoff == "2025-07-01T00:00:00+0000"

TEarly == "2025-06-30T23:59:59+0000"
TLate == "2025-07-01T08:30:00+0000"

LeadAnn ==
    Raw("L1", "2025-07-01T00:00:00Z",
        <<Field("email", "a@x.com"), Field("first_name", "Ann")>>)
LeadSameEmail ==
    Raw("L2", TLate, <<Field("email", "a@x.com"), Field("phone", "555")>>)
LeadSameId ==
    Raw("L1", TEarly, <<Field("email", "b@x.com")>>)
LeadNoId ==
    Raw(None, TLate, <<Field("email", "c@x.com")>>)
LeadEmptyEmail ==
    Raw("L4", TLate, <<Field("email", ""), Field("phone_number", "777")>>)
LeadNoContact ==
    Raw("L6", TLate, <<Field("full_name", "Cy"), Field("phone", "")>>)
LeadNoTime ==
    Raw("L7", None, <<Field("phone_number_ext", "555")>>)

RawPool ==
    {LeadAnn, LeadSameEmail, LeadSameId, LeadNoId, LeadEmptyEmail,
     LeadNoContact, LeadNoTime}

\* The leads a source holds, oldest request first.
RecordLists == UNION {[1..n -> RawPool] : n \in 0..MaxRecords}

Min(a, b) == IF a < b THEN a ELSE b

\* The pages the remote source serves for leads and a page size of limit:
\* each page holds the next limit leads in its `data` array and page p
\* carries paging.next, the URL of page p + 1, exactly when it is not the
\* last one.  A source without leads serves one empty page.
Chunk(leads, limit) ==
    IF leads = <<>> THEN << <<>> >>
    ELSE [p \in 1..((Len(leads) + limit - 1) \div limit) |->
            SubSeq(leads, (p - 1) * limit + 1, Min(p * limit, Len(leads)))]

\* The sources of a live run, and the sample files of an offline run (one
\* page whatever its length).
LiveSources == {Chunk(leads, limit) : leads \in RecordLists, limit \in 1..MaxPageSize}

OfflineSources == {<<leads>> : leads \in RecordLists}

\* The store the first run starts from: empty, or what an earlier run that
\* ingested one record left behind.
InitStores ==
    {<<>>} \cup {mark_seen(<<>>, normalize_lead(r)) : r \in {LeadSameEmail}}

\* resp.headers.get("Retry-After") of a 429 response: no header, an empty
\* one, delay-seconds (RFC 9110 allows no sign) or other text.
RetryAfterValues == {None, "", "0", "7", "soon"}

\* int(h) for a string of decimal digits, possibly within white space;
\* -1 stands for the ValueError int raises on other text.
IntOf(h) ==
    LET t == strip(h)
    IN  IF t # "" /\ AllDigits(t, 1, Len(t)) THEN NumAt(t, 1, Len(t)) ELSE -1

NoUrl == 0

base_url == 1

VARIABLES
    args,           \* main: args.log_level and args.since as given
    env,            \* os.environ: META_ACCESS_TOKEN and LEAD_FORM_ID
    db,             \* the database file and main's LeadDB object on it
    offline_mode,   \* main: offline_mode
    since_param,    \* main: since_param (None when --since is not given)
    max_retries,    \* main: args.max_retries
    source,         \* the remote source (live) or the sample file (offline)
    store,          \* rows of seen_leads, which outlives a run
    files,          \* new_leads.json / new_leads.csv as left on disk
    run,            \* number of the current invocation of main
    runs,           \* how each finished invocation ended: "done" or "raised"
    pc,             \* position of main and of the generator it drives
    page,           \* main: page
    i,              \* main: position of raw in page (1-based)
    new_leads,      \* main: new_leads
    error,          \* the exception that ended the run, if any
    url,            \* fetch_leads: url (a page number, NoUrl for None)
    attempt,        \* fetch_leads: attempt
    slept,          \* time.sleep argument of the last step (-1: no sleep)
    retry_after,    \* fetch_leads: retry_after of the last 429 of the loop
    requests,       \* session.get calls made in the current attempt loop
    n429,           \* 429 responses seen in the current attempt loop
    n5xx,           \* 5xx responses seen in the current attempt loop
    nfail,          \* failed attempts of any other kind in the loop
    yielded,        \* pages yielded in this run: [url, failed attempts]
    written,        \* write_output was called in this run
    db_log,         \* is_seen / mark_seen calls of this run, in order
    call            \* the last direct call of a LeadDB method

\* What the page loop and the LeadDB methods never change.
cfgvars == <<args, env, db, offline_mode, since_param, max_retries, source>>

mainvars == <<page, i, new_leads, db_log>>

fetchvars ==
    <<url, attempt, slept, retry_after, requests, n429, n5xx, nfail, yielded>>

vars ==
    <<args, env, db, offline_mode, since_param, max_retries, source, store, files, run, runs,
      pc, page, i, new_leads, error, url, attempt, slept, retry_after,
      requests, n429, n5xx, nfail, yielded, written, db_log, call>>

NoFile == [exists |-> FALSE, leads |-> <<>>]

NoLead == Row(None, None, None, None, None)

\* A direct call of a LeadDB method with its arguments and its result.
Call(op, lead, limit, seen, rows) ==
    [op |-> op, lead |-> lead, limit |-> limit, seen |-> seen, rows |-> rows]

NoCall == Call("none", NoLead, NoLimit, FALSE, <<>>)

Lower == "abcdefghijklmnopqrstuvwxyz"

Upper == "ABCDEFGHIJKLMNOPQRSTUVWXYZ"

UpperChar(c) ==
    IF \E k \in 1..26 : SubSeq(Lower, k, k) = c
    THEN LET k == CHOOSE k \in 1..26 : SubSeq(Lower, k, k) = c
         IN  SubSeq(Upper, k, k)
    ELSE c

\* str.upper()
RECURSIVE upper(_)
upper(s) ==
    IF s = "" THEN ""
    ELSE UpperChar(SubSeq(s, 1, 1)) \o upper(SubSeq(s, 2, Len(s)))

\* The attributes of the logging module whose value is an int and whose
\* name is upper case: the level names.
LevelNames ==
    {"CRITICAL", "FATAL", "ERROR", "WARNING", "WARN", "INFO", "DEBUG", "NOTSET"}

\* isinstance(getattr(logging, args.log_level.upper(), None), int)
ValidLogLevel(log_level) == upper(log_level) \in LevelNames

\* The names appended to `missing` in live mode.
Missing(environ) ==
    {k \in {"META_ACCESS_TOKEN", "LEAD_FORM_ID"} : Falsy(environ[k])}

\* The checks of lines 286-330 all pass.
ConfigOk ==
    /\ ValidLogLevel(args.log_level)
    /\ offline_mode \/ Missing(env) = {}
    /\ Falsy(args.since) \/ parse_iso_timestamp(args.since).ok

\* The database: whether its file exists on disk, whether main holds a
\* LeadDB connection to it, and whether this invocation created the file.
Db(exists, open, created) ==
    [exists |-> exists, open |-> open, created |-> created]

\* main past line 330 of a well-configured invocation: a valid log level,
\* both credentials set, --since as accepted, the LeadDB opened on an
\* existing file.
Configured ==
    /\ args = [log_level |-> "INFO", since |-> since_param]
    /\ env = [META_ACCESS_TOKEN |-> "tok", LEAD_FORM_ID |-> "f1"]
    /\ db = Db(TRUE, TRUE, FALSE)

\* State of main at line 345: arguments parsed, LeadDB opened, new_leads
\* empty, the generator created but not yet started.
StartRun ==
    /\ pc = "request"
    /\ page = <<>>
    /\ i = 1
    /\ new_leads = <<>>
    /\ error = None
    /\ url = base_url
    /\ attempt = 0
    /\ slept = -1
    /\ retry_after = None
    /\ requests = 0
    /\ n429 = 0
    /\ n5xx = 0
    /\ nfail = 0
    /\ yielded = <<>>
    /\ written = FALSE
    /\ db_log = <<>>

\* The pipeline over every small source, run with --max-retries 0 so that
\* a failed attempt is fatal at once (SpecFetch covers the retries).  A
\* live run is started without --since, which main would only pass on as
\* a request parameter (SpecMain has live runs with --since).
Init ==
    /\ offline_mode \in BOOLEAN
    /\ since_param \in (IF offline_mode THEN {None, SinceCutoff} ELSE {None})
    /\ max_retries = 0
    /\ Configured
    /\ source \in (IF offline_mode THEN OfflineSources ELSE LiveSources)
    /\ store \in InitStores
    /\ files = [json |-> NoFile, csv |-> NoFile]
    /\ run = 1
    /\ runs = <<>>
    /\ call = NoCall
    /\ StartRun

(***************************************************************************)
(* fetch_leads: one action per HTTP attempt, by the response it gets.      *)
(***************************************************************************)
\* paging.next missing from the last but one page as well.
PagingNextShort(u) == IF u + 1 < Len(source) THEN u + 1 ELSE NoUrl

\* The page the source serves at url and the paging.next it carries.
PageData(u) == source[u]

PagingNext(u) == IF u < Len(source) THEN u + 1 ELSE NoUrl

\* The except branch with `attempt <= max_retries`.
ExceptBranchOffByOne(att) ==
    IF att <= max_retries
    THEN /\ slept' = Pow2(att)
         /\ attempt' = att + 1
         /\ pc' = "request"
         /\ error' = error
    ELSE /\ slept' = -1
         /\ attempt' = att
         /\ pc' = "raised"
         /\ error' = "RequestException"

\* The `except requests.exceptions.RequestException` branch, entered with
\* the local attempt equal to att: back off and retry, or re-raise.
ExceptBranch(att) ==
    IF att < max_retries
    THEN /\ slept' = Pow2(att)
         /\ attempt' = att + 1
         /\ pc' = "request"
         /\ error' = error
    ELSE /\ slept' = -1
         /\ attempt' = att
         /\ pc' = "raised"
         /\ error' = "RequestException"

InRequest == pc = "request" /\ ~offline_mode

\* A response that is neither >= 500 nor 429 and passes raise_for_status:
\* the page is yielded to main's loop.
RequestOk ==
    /\ InRequest
    /\ page' = PageData(url)
    /\ i' = 1
    /\ yielded' = Append(yielded, [url |-> url,
                                    failed |-> n429 + n5xx + nfail])
    /\ pc' = "process"
    /\ slept' = -1
    /\ retry_after' = None
    /\ requests' = 0
    /\ n429' = 0
    /\ n5xx' = 0
    /\ nfail' = 0
    /\ UNCHANGED <<cfgvars, call, store, files, run, runs, new_leads, error, url,
                   attempt, written, db_log>>

\* status_code >= 500: HTTPError is raised inside the try block.
Request5xx ==
    /\ InRequest
    /\ requests' = requests + 1
    /\ n5xx' = n5xx + 1
    /\ ExceptBranch(attempt)
    /\ UNCHANGED <<cfgvars, call, store, files, run, runs, page, i, new_leads, url,
                   retry_after, n429, nfail, yielded, written, db_log>>

\* session.get raises (connection error, timeout), or the status is a 4xx
\* other than 429 and raise_for_status raises at line 107.
RequestError ==
    /\ InRequest
    /\ requests' = requests + 1
    /\ nfail' = nfail + 1
    /\ ExceptBranch(attempt)
    /\ UNCHANGED <<cfgvars, call, store, files, run, runs, page, i, new_leads, url,
                   retry_after, n429, n5xx, yielded, written, db_log>>

\* The 429 branch's delay without the Retry-After header.
RetryDelayNoHeader(header, att) == Pow2(att)

\* The delay of the 429 branch for a Retry-After header value.
RetryDelay(header, att) ==
    IF ~Falsy(header)
    THEN (IF IntOf(header) >= 0 THEN IntOf(header) ELSE Pow2(att))
    ELSE Pow2(att)

\* The 429 branch without `attempt += 1`: a 429 response is retried
\* without being counted.
Request429Uncounted ==
    /\ pc = "request" /\ ~offline_mode
    /\ \E header \in RetryAfterValues :
        /\ retry_after' = header
        /\ requests' = requests + 1
        /\ n429' = n429 + 1
        /\ slept' = RetryDelay(header, attempt)
        /\ attempt' = attempt
        /\ IF attempt > max_retries
           THEN pc' = "raised" /\ error' = "RequestException"
           ELSE pc' = "request" /\ error' = error
    /\ UNCHANGED <<cfgvars, call, store, files, run, runs, page, i, new_leads,
                   url, n5xx, nfail, yielded, written, db_log>>

\* The 429 branch with a retry count of its own: attempt is left alone and
\* the bound is tested on the number of 429 responses.
Request429Separate ==
    /\ pc = "request" /\ ~offline_mode
    /\ \E header \in RetryAfterValues :
        /\ retry_after' = header
        /\ requests' = requests + 1
        /\ n429' = n429 + 1
        /\ slept' = RetryDelay(header, n429)
        /\ attempt' = attempt
        /\ IF n429 + 1 > max_retries
           THEN pc' = "raised" /\ error' = "RequestException"
           ELSE pc' = "request" /\ error' = error
    /\ UNCHANGED <<cfgvars, call, store, files, run, runs, page, i, new_leads,
                   url, n5xx, nfail, yielded, written, db_log>>

\* status_code = 429: sleep, count the attempt, and either continue or
\* raise_for_status(), whose HTTPError lands in the except branch.
Request429 ==
    /\ InRequest
    /\ \E header \in RetryAfterValues :
        /\ retry_after' = header
        /\ requests' = requests + 1
        /\ n429' = n429 + 1
        /\ IF attempt + 1 > max_retries
           THEN IF attempt + 1 < max_retries
                THEN /\ slept' = Pow2(attempt + 1)
                     /\ attempt' = attempt + 2
                     /\ pc' = "request"
                     /\ error' = error
                ELSE /\ slept' = RetryDelay(header, attempt)
                     /\ attempt' = attempt + 1
                     /\ pc' = "raised"
                     /\ error' = "RequestException"
           ELSE /\ slept' = RetryDelay(header, attempt)
                /\ attempt' = attempt + 1
                /\ pc' = "request"
                /\ error' = error
    /\ UNCHANGED <<cfgvars, call, store, files, run, runs, page, i, new_leads, url,
                   n5xx, nfail, yielded, written, db_log>>

\* NextPage with `attempt = 0` hoisted out of the `while url` loop.
NextPageKeepAttempt ==
    /\ pc = "process" /\ i > Len(page)
    /\ ~offline_mode
    /\ PagingNext(url) # NoUrl
    /\ url' = PagingNext(url)
    /\ attempt' = attempt
    /\ pc' = "request"
    /\ UNCHANGED <<cfgvars, call, store, files, run, runs, page, i, new_leads,
                   error, slept, retry_after, requests, n429, n5xx, nfail,
                   yielded, written, db_log>>

\* The generator is resumed after main consumed a page that carries a
\* paging.next link: the next page starts with attempt = 0.
NextPage ==
    /\ pc = "process" /\ i > Len(page)
    /\ ~offline_mode
    /\ PagingNext(url) # NoUrl
    /\ url' = PagingNext(url)
    /\ attempt' = 0
    /\ pc' = "request"
    /\ UNCHANGED <<cfgvars, call, store, files, run, runs, page, i, new_leads,
                   error, slept, retry_after, requests, n429, n5xx, nfail,
                   yielded, written, db_log>>

\* run_offline_sample: the single page of the sample file.
OfflineYield ==
    /\ pc = "request" /\ offline_mode
    /\ page' = source[1]
    /\ i' = 1
    /\ yielded' = Append(yielded, [url |-> 1, failed |-> 0])
    /\ pc' = "process"
    /\ UNCHANGED <<cfgvars, call, store, files, run, runs, new_leads, error, url,
                   attempt, slept, retry_after, requests, n429, n5xx, nfail,
                   written, db_log>>

(***************************************************************************)
(* main: the body of `for raw in page`, one action per way it ends.        *)
(***************************************************************************)
\* The loop body without the --since test.
BodyOutcomeNoFilter(raw, rows, offline, since) ==
    LET normalized == normalize_lead(raw)
    IN  IF normalized = Rejected THEN "rejected"
        ELSE IF is_seen(rows, normalized.lead_id,
                        Or(normalized.email, ""), Or(normalized.phone, ""))
        THEN "seen" ELSE "new"

\* How the loop body ends for raw against the rows of the store:
\*   "rejected"   normalize_lead returned None;
\*   "ValueError" parse_iso_timestamp raised on created_time;
\*   "TypeError"  created_dt < cutoff compared a naive with an aware datetime;
\*   "filtered"   created_dt is earlier than the --since cutoff;
\*   "seen"       db.is_seen returned True;
\*   "new"        the lead is marked seen and appended to new_leads.
BodyOutcome(raw, rows, offline, since) ==
    LET normalized == normalize_lead(raw)
        dedup == IF is_seen(rows, normalized.lead_id,
                            Or(normalized.email, ""), Or(normalized.phone, ""))
                 THEN "seen" ELSE "new"
    IN  IF normalized = Rejected THEN "rejected"
        ELSE IF ~Falsy(since) /\ offline
        THEN LET created_dt == parse_iso_timestamp(normalized.created_time)
                 cutoff == parse_iso_timestamp(since)
             IN  IF ~created_dt.ok \/ ~cutoff.ok THEN "ValueError"
                 ELSE IF ~CanCompare(created_dt, cutoff) THEN "TypeError"
                 ELSE IF DtLess(created_dt, cutoff) THEN "filtered"
                 ELSE dedup
        ELSE dedup

InBody == pc = "process" /\ i <= Len(page)

Outcome == BodyOutcome(page[i], store, offline_mode, since_param)

DbCall(op, lead) == [op |-> op, lead |-> lead]

SkipRejected ==
    /\ InBody
    /\ Outcome = "rejected"
    /\ i' = i + 1
    /\ UNCHANGED <<cfgvars, call, store, files, run, runs, pc, page, new_leads,
                   error, fetchvars, written, db_log>>

SkipBeforeSince ==
    /\ InBody
    /\ Outcome = "filtered"
    /\ i' = i + 1
    /\ UNCHANGED <<cfgvars, call, store, files, run, runs, pc, page, new_leads,
                   error, fetchvars, written, db_log>>

\* parse_iso_timestamp(created_time) or the comparison raises: the
\* exception leaves main.
RaiseInBody ==
    /\ InBody
    /\ Outcome \in {"ValueError", "TypeError"}
    /\ pc' = "raised"
    /\ error' = Outcome
    /\ UNCHANGED <<cfgvars, call, store, files, run, runs, page, i, new_leads,
                   fetchvars, written, db_log>>

SkipSeen ==
    /\ InBody
    /\ Outcome = "seen"
    /\ i' = i + 1
    /\ db_log' = Append(db_log, DbCall("is_seen", normalize_lead(page[i])))
    /\ UNCHANGED <<cfgvars, call, store, files, run, runs, pc, page, new_leads,
                   error, fetchvars, written>>

Ingest ==
    /\ InBody
    /\ Outcome = "new"
    /\ LET normalized == normalize_lead(page[i])
       IN  /\ store' = mark_seen(store, normalized)
           /\ new_leads' = Append(new_leads, normalized)
           /\ db_log' = db_log \o <<DbCall("is_seen", normalized),
                                    DbCall("mark_seen", normalized)>>
    /\ i' = i + 1
    /\ UNCHANGED <<cfgvars, call, files, run, runs, pc, page, error, fetchvars,
                   written>>

\* csv.DictWriter writes None as the empty string.
CsvRow(lead) == [k \in DOMAIN lead |-> IF lead[k] = None THEN "" ELSE lead[k]]

\* The file write_output leaves behind for a non-empty list of leads.
FileOf(leads, output_format) ==
    [exists |-> TRUE,
     leads |-> IF output_format = "json" THEN leads
               ELSE [j \in 1..Len(leads) |-> CsvRow(leads[j])]]

\* write_output without the `if not leads` return.
write_output_ungated(fs, leads, output_format) ==
    [fs EXCEPT ![output_format] = FileOf(leads, output_format)]

write_output(fs, leads, output_format) ==
    IF leads = <<>> THEN fs
    ELSE [fs EXCEPT ![output_format] = FileOf(leads, output_format)]

\* The generator is exhausted (no paging.next, or the offline sample was
\* consumed): main leaves the loop and calls write_output.
WriteOutput ==
    /\ pc = "process" /\ i > Len(page)
    /\ offline_mode \/ PagingNext(url) = NoUrl
    /\ \E output_format \in {"json", "csv"} :
        files' = write_output(files, new_leads, output_format)
    /\ written' = TRUE
    /\ url' = IF offline_mode THEN url ELSE NoUrl
    /\ pc' = "done"
    /\ UNCHANGED <<cfgvars, call, store, run, runs, page, i, new_leads, error,
                   attempt, slept, retry_after, requests, n429, n5xx, nfail,
                   yielded, db_log>>

\* The tool is invoked again with the same arguments on the same source;
\* only the store and the files on disk are carried over.  The checks at
\* the top of main pass as they did and the LeadDB is opened on the file
\* that now exists.  (An invocation that failed those checks fails them
\* again in the same way.)
Rerun ==
    /\ pc \in {"done", "raised"}
    /\ ConfigOk
    /\ run < MaxRuns
    /\ db' = Db(TRUE, TRUE, FALSE)
    /\ runs' = Append(runs, pc)
    /\ run' = run + 1
    /\ pc' = "request"
    /\ page' = <<>>
    /\ i' = 1
    /\ new_leads' = <<>>
    /\ error' = None
    /\ url' = base_url
    /\ attempt' = 0
    /\ slept' = -1
    /\ retry_after' = None
    /\ requests' = 0
    /\ n429' = 0
    /\ n5xx' = 0
    /\ nfail' = 0
    /\ yielded' = <<>>
    /\ written' = FALSE
    /\ db_log' = <<>>
    /\ UNCHANGED <<args, env, offline_mode, since_param, max_retries, source,
                   call, store, files>>

Next ==
    \/ RequestOk
    \/ Request5xx
    \/ RequestError
    \/ Request429
    \/ NextPage
    \/ OfflineYield
    \/ SkipRejected
    \/ SkipBeforeSince
    \/ RaiseInBody
    \/ SkipSeen
    \/ Ingest
    \/ WriteOutput
    \/ Rerun

Spec == Init /\ [][Next]_vars

(***************************************************************************)
(* main from its first line: logging, environment, LeadDB, --since.  The   *)
(* --view-db branch (lines 299-301) is not taken.                          *)
(***************************************************************************)
LogLevels == {"INFO", "debug", "LOUD"}

SinceArgs == {None, "", SinceCutoff, "yesterday"}

EnvValues == {None, "", "tok"}

\* The source of the runs that start at the top of main.
MainSource(offline) ==
    IF offline THEN <<<<LeadAnn, LeadNoContact, LeadSameId, LeadNoTime>>>>
    ELSE <<<<LeadAnn, LeadNoContact>>, <<LeadSameEmail, LeadEmptyEmail>>>>

\* State at the first line of main, for every combination of arguments
\* and environment, on a database file that exists or not.
InitMain ==
    /\ args \in [log_level : LogLevels, since : SinceArgs]
    /\ env \in [META_ACCESS_TOKEN : EnvValues, LEAD_FORM_ID : EnvValues]
    /\ offline_mode \in BOOLEAN
    /\ since_param = None
    /\ max_retries = 0
    /\ source = MainSource(offline_mode)
    /\ \E exists \in BOOLEAN :
        /\ db = Db(exists, FALSE, FALSE)
        /\ store \in (IF exists THEN InitStores ELSE {<<>>})
    /\ files = [json |-> NoFile, csv |-> NoFile]
    /\ run = 1
    /\ runs = <<>>
    /\ call = NoCall
    /\ pc = "main"
    /\ page = <<>>
    /\ i = 1
    /\ new_leads = <<>>
    /\ error = None
    /\ url = base_url
    /\ attempt = 0
    /\ slept = -1
    /\ retry_after = None
    /\ requests = 0
    /\ n429 = 0
    /\ n5xx = 0
    /\ nfail = 0
    /\ yielded = <<>>
    /\ written = FALSE
    /\ db_log = <<>>

\* Lines 286-289: an invalid --log-level raises ValueError.
ConfigureLogging ==
    /\ pc = "main"
    /\ IF ValidLogLevel(args.log_level)
       THEN pc' = "env" /\ error' = error
       ELSE pc' = "raised" /\ error' = "ValueError"
    /\ UNCHANGED <<cfgvars, call, store, files, run, runs, mainvars,
                   fetchvars, written>>

\* Lines 304-315: in live mode a missing credential or form id ends the
\* run with sys.exit(1).
ValidateEnv ==
    /\ pc = "env"
    /\ IF ~offline_mode /\ Missing(env) # {}
       THEN pc' = "raised" /\ error' = "SystemExit"
       ELSE pc' = "open" /\ error' = error
    /\ UNCHANGED <<cfgvars, call, store, files, run, runs, mainvars,
                   fetchvars, written>>

\* Lines 318-323: LeadDB(db_path) connects, which creates the file when it
\* does not exist, and creates the table if it is not there.
OpenDb ==
    /\ pc = "open"
    /\ db' = Db(TRUE, TRUE, ~db.exists)
    /\ pc' = "since"
    /\ UNCHANGED <<args, env, offline_mode, since_param, max_retries, source,
                   call, store, files, run, runs, mainvars, error, fetchvars,
                   written>>

\* Lines 326-344: --since is validated and kept, and the page generator is
\* created.
DetermineSince ==
    /\ pc = "since"
    /\ IF Falsy(args.since)
       THEN since_param' = None /\ pc' = "request" /\ error' = error
       ELSE IF parse_iso_timestamp(args.since).ok
       THEN since_param' = args.since /\ pc' = "request" /\ error' = error
       ELSE since_param' = since_param /\ pc' = "raised" /\ error' = "ValueError"
    /\ UNCHANGED <<args, env, db, offline_mode, max_retries, source, call,
                   store, files, run, runs, mainvars, fetchvars, written>>

NextMain ==
    \/ ConfigureLogging
    \/ ValidateEnv
    \/ OpenDb
    \/ DetermineSince
    \/ Next

SpecMain == InitMain /\ [][NextMain]_vars

(***************************************************************************)
(* The paged fetcher on its own: a live run over a source of fixed pages,  *)
(* under every interleaving of responses.                                  *)
(***************************************************************************)
FetchMaxPages == 3
FetchMaxRetries == 3

\* The data of page p of that source.
FetchPage(p) ==
    IF p = 1 THEN <<LeadAnn, LeadNoContact>>
    ELSE IF p = 2 THEN <<LeadSameEmail, LeadEmptyEmail>>
    ELSE IF p = 3 THEN <<LeadNoId>>
    ELSE <<LeadSameId>>

InitFetch ==
    /\ offline_mode = FALSE
    /\ since_param = None
    /\ max_retries \in 0..FetchMaxRetries
    /\ Configured
    /\ source \in {[p \in 1..n |-> FetchPage(p)] : n \in 1..FetchMaxPages}
    /\ store = <<>>
    /\ files = [json |-> NoFile, csv |-> NoFile]
    /\ run = 1
    /\ runs = <<>>
    /\ call = NoCall
    /\ StartRun

\* The actions one live run without --since can take.
NextFetch ==
    \/ RequestOk
    \/ Request5xx
    \/ RequestError
    \/ Request429
    \/ NextPage
    \/ SkipRejected
    \/ SkipSeen
    \/ Ingest
    \/ WriteOutput

SpecFetch == InitFetch /\ [][NextFetch]_vars

\* A run is a sequential program: it keeps taking its next step.
FairFetch == SpecFetch /\ WF_vars(NextFetch)

(***************************************************************************)
(* LeadDB used directly: any sequence of calls of its methods.             *)
(***************************************************************************)
MaxLimit == 3

DbLeads == {normalize_lead(r) : r \in {q \in RawPool : normalize_lead(q) # Rejected}}

DbIds == {None, "", "L1", "L2"}

InitDB ==
    /\ offline_mode = FALSE
    /\ since_param = None
    /\ max_retries = 0
    /\ Configured
    /\ source = <<<<>>>>
    /\ store = <<>>
    /\ files = [json |-> NoFile, csv |-> NoFile]
    /\ run = 1
    /\ runs = <<>>
    /\ call = NoCall
    /\ pc = "api"
    /\ page = <<>>
    /\ i = 1
    /\ new_leads = <<>>
    /\ error = None
    /\ url = base_url
    /\ attempt = 0
    /\ slept = -1
    /\ retry_after = None
    /\ requests = 0
    /\ n429 = 0
    /\ n5xx = 0
    /\ nfail = 0
    /\ yielded = <<>>
    /\ written = FALSE
    /\ db_log = <<>>

pipevars ==
    <<cfgvars, files, run, runs, pc, page, i, new_leads, error, fetchvars,
      written, db_log>>

DbMarkSeen ==
    /\ pc = "api"
    /\ \E lead \in DbLeads :
        /\ store' = mark_seen(store, lead)
        /\ call' = Call("mark_seen", lead, NoLimit, FALSE, <<>>)
    /\ UNCHANGED pipevars

DbMarkSeenId ==
    /\ pc = "api"
    /\ \E lead_id \in DbIds :
        /\ store' = mark_seen_id(store, lead_id)
        /\ call' = Call("mark_seen_id", Row(lead_id, None, None, None, None),
                        NoLimit, FALSE, <<>>)
    /\ UNCHANGED pipevars

DbIsSeen ==
    /\ pc = "api"
    /\ \E lead \in DbLeads :
        call' = Call("is_seen", lead, NoLimit,
                     is_seen(store, lead.lead_id, Or(lead.email, ""),
                             Or(lead.phone, "")), <<>>)
    /\ UNCHANGED <<store, pipevars>>

DbFetchAll ==
    /\ pc = "api"
    /\ \E limit \in {NoLimit} \cup 0..MaxLimit :
        call' = Call("fetch_all", NoLead, limit, FALSE, fetch_all(store, limit))
    /\ UNCHANGED <<store, pipevars>>

NextDB ==
    \/ DbMarkSeen
    \/ DbMarkSeenId
    \/ DbIsSeen
    \/ DbFetchAll

SpecDB == InitDB /\ [][NextDB]_vars

(***************************************************************************)
(* normalize_lead on its own: one call on every small raw lead.            *)
(***************************************************************************)
MaxFields == 3

\* The entries of field_data: each field name the function reads, with no
\* value, an empty first value or a value; and an entry without a name.
FieldItems ==
    UNION {{[name |-> k, values |-> <<>>], Field(k, "")} :
            k \in {"email", "phone", "phone_number", "phone_number_ext",
                   "full_name", "first_name", "last_name"}}
    \cup {Field("email", "a@x.com"), Field("phone", "555"),
          Field("phone_number", "777"), Field("phone_number_ext", "999"),
          Field("full_name", "Ann Lee"), Field("full_name", " "),
          Field("first_name", "Ann"), Field("first_name", " Ann"),
          Field("first_name", " "), Field("last_name", "Lee"),
          [name |-> "last_name", values |-> <<"", "Lee">>],
          Field("", "a@x.com"), Field(None, "555")}

FieldLists == UNION {[1..n -> FieldItems] : n \in 0..MaxFields}

InitNormalize ==
    /\ offline_mode = TRUE
    /\ since_param = None
    /\ max_retries = 0
    /\ Configured
    /\ source \in {<<<<Raw("L1", TLate, field_data)>>>> : field_data \in FieldLists}
    /\ store = <<>>
    /\ files = [json |-> NoFile, csv |-> NoFile]
    /\ run = 1
    /\ runs = <<>>
    /\ call = NoCall
    /\ pc = "normalize"
    /\ page = source[1]
    /\ i = 1
    /\ new_leads = <<>>
    /\ error = None
    /\ url = base_url
    /\ attempt = 0
    /\ slept = -1
    /\ retry_after = None
    /\ requests = 0
    /\ n429 = 0
    /\ n5xx = 0
    /\ nfail = 0
    /\ yielded = <<>>
    /\ written = FALSE
    /\ db_log = <<>>

\* normalized = normalize_lead(raw); call.lead holds the value returned,
\* Rejected for None.
NormalizeLead ==
    /\ pc = "normalize"
    /\ i <= Len(page)
    /\ call' = Call("normalize_lead", normalize_lead(page[i]), NoLimit,
                    FALSE, <<>>)
    /\ i' = i + 1
    /\ UNCHANGED <<cfgvars, store, files, run, runs, pc, page, new_leads,
                   error, fetchvars, written, db_log>>

NextNormalize == NormalizeLead

SpecNormalize == InitNormalize /\ [][NextNormalize]_vars

(***************************************************************************)
(* Properties.                                                             *)
(***************************************************************************)
Live == ~offline_mode

\* Failed attempts of the current attempt loop.
Failed == n429 + n5xx + nfail

SinceSet == ~Falsy(since_param)

\* The lead the loop body is about to process, and the one it just left.
Current == normalize_lead(page[i])

Previous == normalize_lead(page[i - 1])

SeenInStore(lead) ==
    is_seen(store, lead.lead_id, Or(lead.email, ""), Or(lead.phone, ""))

\* C1: when a run completes and the tool is run again on the same source
\* against the resulting store, the second run's new_leads is empty.
C1_Idempotent ==
    (run >= 2 /\ pc = "done" /\ runs[run - 1] = "done") => new_leads = <<>>

\* A stored row has the lead's non-empty email under another id.
SameEmailOtherId(row, lead) ==
    /\ ~Falsy(lead.email)
    /\ row.email = lead.email
    /\ row.lead_id # lead.lead_id

\* C2: when the store holds a row of a lead A that was marked seen (in this
\* run or before it) and the loop body processes an accepted lead B with
\* the same non-empty email and another id, B is skipped: the step leaves
\* new_leads and the store as they are, whatever B's id and phone are.
C2_OrIdentity ==
    [][(/\ InBody
        /\ Current # Rejected
        /\ \E j \in 1..Len(store) : SameEmailOtherId(store[j], Current))
       => (store' = store /\ new_leads' = new_leads)]_vars

\* B, with A's email, another id and another phone, has just been skipped
\* by the is_seen check.
C2_Witness ==
    /\ pc = "process" /\ i > 1
    /\ Previous # Rejected
    /\ \E j \in 1..Len(store) :
        /\ SameEmailOtherId(store[j], Previous)
        /\ store[j].phone # Previous.phone
    /\ \A j \in 1..Len(store) : store[j].lead_id # Previous.lead_id
    /\ db_log # <<>>
    /\ db_log[Len(db_log)] = DbCall("is_seen", Previous)
    /\ \A k \in 1..Len(new_leads) : new_leads[k] # Previous

\* A stored row has the lead's id, its non-empty email or its non-empty
\* phone.
SharesKey(row, lead) ==
    \/ row.lead_id = lead.lead_id
    \/ ~Falsy(lead.email) /\ row.email = lead.email
    \/ ~Falsy(lead.phone) /\ row.phone = lead.phone

\* C3: is_seen reports an accepted lead B as seen only when some stored row
\* has B's id, B's non-empty email or B's non-empty phone; absent or empty
\* emails and phones never produce the match.
C3_EmptyNeverMatches ==
    (InBody /\ Current # Rejected /\ SeenInStore(Current))
        => \E j \in 1..Len(store) : SharesKey(store[j], Current)

\* C4: a mark_seen call with a lead whose lead_id already has a row leaves
\* the whole table as it was: no row is added and no column of the stored
\* row is overwritten.
C4_MarkSeenIdempotent ==
    [][(/\ call'.op = "mark_seen"
        /\ \E j \in 1..Len(store) : store[j].lead_id = call'.lead.lead_id)
       => store' = store]_vars

\* mark_seen was just called with a lead whose id is stored with another
\* email, and the row still holds the earlier one.
C4_Witness ==
    /\ call.op = "mark_seen"
    /\ \E j \in 1..Len(store) :
        /\ store[j].lead_id = call.lead.lead_id
        /\ store[j].email # call.lead.email

\* C5: while every attempt on a page returns a status >= 500, the fetch
\* raises exactly at attempt number max_retries + 1, neither earlier nor
\* later; when it raises, the page has not been yielded and no later page
\* has been requested.
C5_RetryBound5xx ==
    (Live /\ pc \in {"request", "raised"} /\ n429 = 0 /\ nfail = 0) =>
        /\ requests = n5xx
        /\ n5xx <= max_retries + 1
        /\ (pc = "raised") <=> (n5xx = max_retries + 1)
        /\ pc = "raised" =>
            /\ error = "RequestException"
            /\ Len(yielded) = url - 1
            /\ \A k \in 1..Len(yielded) : yielded[k].url < url

C5_Witness ==
    /\ Live /\ pc = "raised"
    /\ n429 = 0 /\ nfail = 0
    /\ max_retries >= 1
    /\ n5xx = max_retries + 1
    /\ url >= 2

\* C6 as stated: the fetch raises only when the page saw more than
\* max_retries 429 responses or more than max_retries other failures.
C6_SeparateCounts ==
    (Live /\ pc = "raised") =>
        (n429 > max_retries \/ n5xx + nfail > max_retries)

\* C6 as amended: 429 responses and other failures share one attempt count
\* per page.  The page is still being fetched while the failed attempts of
\* both kinds together number at most max_retries, and the fetch raises
\* exactly when they reach max_retries + 1, so in particular once the 429
\* responses alone exceed max_retries.
C6_SharedCount ==
    (Live /\ pc \in {"request", "raised"}) =>
        /\ requests = Failed
        /\ Failed <= max_retries + 1
        /\ (pc = "raised") <=> (Failed = max_retries + 1)
        /\ n429 > max_retries => pc = "raised"

\* The fetch raised on a page that saw both kinds of failure, neither kind
\* more than max_retries times.
C6_Witness ==
    /\ Live /\ pc = "raised"
    /\ n429 >= 1 /\ n429 <= max_retries
    /\ n5xx + nfail >= 1 /\ n5xx + nfail <= max_retries

\* The pages are yielded in page order, each once.
PagesInOrder == \A k \in 1..Len(yielded) : yielded[k].url = k

\* C7: the fetch raises only on a page whose own failed attempts exceed
\* max_retries; attempt counts the failed attempts of the current page
\* alone, whatever happened on earlier pages; the pages are yielded in
\* page order, each once, and a run that ends without an error has yielded
\* every page.
C7_TransientAbsorbed ==
    Live =>
        /\ PagesInOrder
        /\ \A k \in 1..Len(yielded) : yielded[k].failed <= max_retries
        /\ pc = "request" => attempt = Failed
        /\ pc = "raised" => Failed > max_retries
        /\ pc = "done" => Len(yielded) = Len(source)

\* A run over several pages ended without an error although every page
\* used up its whole retry budget.
C7_Witness ==
    /\ Live /\ pc = "done"
    /\ max_retries >= 1
    /\ Len(source) >= 2
    /\ Len(yielded) = Len(source)
    /\ \A k \in 1..Len(yielded) : yielded[k].failed = max_retries

\* No attempt of the run has failed so far.
NoFailure ==
    /\ Failed = 0
    /\ pc # "raised"
    /\ \A k \in 1..Len(yielded) : yielded[k].failed = 0

\* C8: the fetch yields the pages of an N-page source in page order, each
\* once and with its own data, never more than N; after page N it makes
\* no further request; and a run all of whose requests succeed ends after
\* exactly N batches.
C8_PaginationTerminates ==
    /\ [](Live =>
            /\ PagesInOrder
            /\ Len(yielded) <= Len(source)
            /\ pc = "process" =>
                (yielded # <<>> /\ yielded[Len(yielded)].url = url
                    /\ page = source[url])
            /\ Len(yielded) = Len(source) => pc \in {"process", "done"}
            /\ pc = "done" => (Len(yielded) = Len(source) /\ url = NoUrl))
    /\ <>(~NoFailure \/ (pc = "done" /\ Len(yielded) = Len(source)))

C8_Witness ==
    /\ Live /\ pc = "done"
    /\ NoFailure
    /\ Len(source) >= 3
    /\ Len(yielded) = Len(source)

\* The lead's creation time is earlier than the --since cutoff, by the
\* comparison main makes.
BeforeCutoff(lead) ==
    LET created_dt == parse_iso_timestamp(lead.created_time)
        cutoff == parse_iso_timestamp(since_param)
    IN  /\ created_dt.ok /\ cutoff.ok
        /\ CanCompare(created_dt, cutoff)
        /\ DtLess(created_dt, cutoff)

\* C9: in offline mode with a since cutoff, no lead created before the
\* cutoff is ever passed to is_seen or mark_seen or appended to new_leads,
\* and the step that processes such a lead leaves the store, new_leads and
\* the record of store calls as they are.
C9_SinceFilterFirst ==
    /\ []((offline_mode /\ SinceSet) =>
            /\ \A k \in 1..Len(db_log) : ~BeforeCutoff(db_log[k].lead)
            /\ \A k \in 1..Len(new_leads) : ~BeforeCutoff(new_leads[k]))
    /\ [][(/\ InBody /\ offline_mode /\ SinceSet
           /\ Current # Rejected
           /\ BeforeCutoff(Current))
          => (store' = store /\ new_leads' = new_leads /\ db_log' = db_log)]_vars

\* A lead created before the cutoff, which no stored row matches, has just
\* been skipped.
C9_Witness ==
    /\ offline_mode /\ SinceSet
    /\ pc = "process" /\ i > 1
    /\ Previous # Rejected
    /\ BeforeCutoff(Previous)
    /\ ~SeenInStore(Previous)
    /\ \A k \in 1..Len(db_log) : db_log[k].lead # Previous

\* The leads mark_seen was called with in this run that carry an id.
Marked ==
    {db_log[k].lead : k \in {h \in 1..Len(db_log) :
        db_log[h].op = "mark_seen" /\ ~Falsy(db_log[h].lead.lead_id)}}

\* C10: after the fetch raised, write_output has not been called in the
\* run, and every lead marked seen on the pages processed before is still
\* a row of the store.
C10_AbortKeepsMarks ==
    (Live /\ pc = "raised") =>
        /\ ~written
        /\ \A lead \in Marked : \E j \in 1..Len(store) : store[j] = lead

\* The fetch raised on a page after the first, with leads of the earlier
\* pages marked seen.
C10_Witness ==
    /\ Live /\ pc = "raised"
    /\ url >= 2
    /\ Marked # {}
    /\ new_leads # <<>>
    /\ ~written
    /\ \A lead \in Marked : \E j \in 1..Len(store) : store[j] = lead

\* The run ended in one of the checks at the top of main, before the page
\* loop: ValueError for the log level or for --since, SystemExit for a
\* missing credential or form id.
ConfigError ==
    /\ pc = "raised"
    /\ error \in {"ValueError", "SystemExit"}
    /\ yielded = <<>>

\* C11: when a configuration error ends the run, no request has been
\* issued, the database has not been opened and its file has not been
\* created.
C11_ConfigErrorsFirst ==
    ConfigError => (requests = 0 /\ ~db.open /\ ~db.created)

\* The file holds exactly the leads, each once and in their order: as they
\* are for json; with None written as the empty field for csv.
Holds(file, leads, output_format) ==
    /\ file.exists
    /\ Len(file.leads) = Len(leads)
    /\ \A j \in 1..Len(leads) :
        /\ DOMAIN file.leads[j] = DOMAIN leads[j]
        /\ \A k \in DOMAIN leads[j] :
            file.leads[j][k] =
                (IF output_format = "csv" /\ leads[j][k] = None THEN ""
                 ELSE leads[j][k])

\* C12: the step that completes a run creates or changes no output file
\* when new_leads is empty; otherwise it leaves one output file, of the
\* chosen format, holding exactly the leads of new_leads in the order they
\* were ingested, and does not touch the other file.
C12_OutputGating ==
    [][(pc = "process" /\ pc' = "done") =>
        /\ written'
        /\ new_leads' = new_leads
        /\ new_leads = <<>> => files' = files
        /\ new_leads # <<>> =>
            \E output_format \in {"json", "csv"} :
                /\ Holds(files'[output_format], new_leads, output_format)
                /\ \A other \in {"json", "csv"} \ {output_format} :
                    files'[other] = files[other]]_vars

\* A second run completed with nothing new and created no file, while the
\* file the first run wrote for its two leads is still as it was.
C12_Witness ==
    /\ run = 2 /\ pc = "done" /\ written
    /\ new_leads = <<>>
    /\ ~files["json"].exists
    /\ Holds(files["csv"], files["csv"].leads, "csv")
    /\ Len(files["csv"].leads) = 2
    /\ \E j \in 1..2 : files["csv"].leads[j].name = ""

\* The raw lead normalize_lead was just called with and what it returned.
NormalizedRaw == page[i - 1]

Normalized == call.lead

\* The field table of the raw lead: the first value of its last entry
\* named k, None when there is none.
FieldValue(raw, k) == FieldGet(raw.field_data, k)

PhoneFields == {"phone", "phone_number", "phone_number_ext"}

HasEmail(raw) == ~Falsy(FieldValue(raw, "email"))

HasPhone(raw) == \E k \in PhoneFields : ~Falsy(FieldValue(raw, k))

\* Every entry of the raw lead is a phone field, and one has a value.
OnlyPhone(raw) ==
    /\ HasPhone(raw)
    /\ \A j \in 1..Len(raw.field_data) : raw.field_data[j].name \in PhoneFields

\* C13: normalize_lead returns None exactly when the raw lead has no
\* non-empty email and no non-empty phone, phone_number or
\* phone_number_ext; a record it returns has a non-empty email or a
\* non-empty phone, its email is the raw email and its phone the first
\* non-empty of the three phone fields; and a raw lead with only phone
\* fields gives a record whose email is absent.
C13_NormalizationGate ==
    call.op = "normalize_lead" =>
        /\ (Normalized = Rejected)
            <=> (~HasEmail(NormalizedRaw) /\ ~HasPhone(NormalizedRaw))
        /\ Normalized # Rejected =>
            /\ ~Falsy(Normalized.email) \/ ~Falsy(Normalized.phone)
            /\ Normalized.email = FieldValue(NormalizedRaw, "email")
            /\ HasPhone(NormalizedRaw) =>
                \E k \in PhoneFields :
                    /\ Normalized.phone = FieldValue(NormalizedRaw, k)
                    /\ ~Falsy(Normalized.phone)
            /\ Normalized.lead_id = NormalizedRaw.id
            /\ Normalized.created_time = NormalizedRaw.created_time
        /\ OnlyPhone(NormalizedRaw) =>
            (Normalized # Rejected /\ Normalized.email = None)

\* A raw lead whose only value is a phone_number_ext, after an empty
\* phone, was accepted with that phone and no email.
C13_Witness ==
    /\ call.op = "normalize_lead"
    /\ OnlyPhone(NormalizedRaw)
    /\ FieldValue(NormalizedRaw, "phone") = ""
    /\ Normalized # Rejected
    /\ Normalized.phone = "999"
    /\ Normalized.email = None

\* s neither starts nor ends with white space.
Trimmed(s) ==
    /\ s # ""
    /\ SubSeq(s, 1, 1) \notin Whitespace
    /\ SubSeq(s, Len(s), Len(s)) \notin Whitespace

\* C18: the name of a returned record is the full_name field when that is
\* non-empty; otherwise it is built from first_name and last_name (an
\* empty or missing one counting as ""): the two joined by one space when
\* both are given, the one that is given when only one is, without white
\* space at either end; it is None when both are empty or missing, and it
\* is never the empty string.
C18_NameDerivation ==
    (call.op = "normalize_lead" /\ Normalized # Rejected) =>
        LET full == FieldValue(NormalizedRaw, "full_name")
            first == Or(FieldValue(NormalizedRaw, "first_name"), "")
            last == Or(FieldValue(NormalizedRaw, "last_name"), "")
            name == Normalized.name
        IN  /\ name # ""
            /\ ~Falsy(full) => name = full
            /\ (Falsy(full) /\ first = "" /\ last = "") => name = None
            /\ (Falsy(full) /\ name # None) =>
                /\ Trimmed(name)
                /\ name = strip(first \o " " \o last)
            /\ (Falsy(full) /\ Trimmed(first) /\ Trimmed(last)) =>
                name = first \o " " \o last
            /\ (Falsy(full) /\ Trimmed(first) /\ last = "") => name = first
            /\ (Falsy(full) /\ first = "" /\ Trimmed(last)) => name = last

\* An accepted raw lead with an empty full_name and only first_name "Ann"
\* got the name "Ann".
C18_Witness ==
    /\ call.op = "normalize_lead"
    /\ Normalized # Rejected
    /\ FieldValue(NormalizedRaw, "full_name") = ""
    /\ FieldValue(NormalizedRaw, "first_name") = "Ann"
    /\ FieldValue(NormalizedRaw, "last_name") = None
    /\ Normalized.name = "Ann"

\* The raw leads of this run that the loop has already left behind: those
\* of the pages before the current one and those before position i.
EarlierRaws ==
    UNION {{source[p][j] : j \in 1..Len(source[p])} : p \in 1..(url - 1)}
        \cup {page[j] : j \in 1..(i - 1)}

\* Two accepted leads share an id, a non-empty email or a non-empty phone.
SharesIdentity(a, b) ==
    \/ ~Falsy(a.lead_id) /\ a.lead_id = b.lead_id
    \/ ~Falsy(a.email) /\ a.email = b.email
    \/ ~Falsy(a.phone) /\ a.phone = b.phone

\* C14: the loop takes the leads in order; a step that appends to
\* new_leads appends the lead at position i, at the end, and no accepted
\* lead processed earlier in the run shares an id, a non-empty email or a
\* non-empty phone with it: of two such leads the later is never appended.
C14_FirstSeenWins ==
    [][(InBody /\ new_leads' # new_leads) =>
        /\ Current # Rejected
        /\ new_leads' = Append(new_leads, Current)
        /\ i' = i + 1 /\ page' = page
        /\ \A raw \in EarlierRaws :
            normalize_lead(raw) # Rejected
                => ~SharesIdentity(normalize_lead(raw), Current)]_vars

\* C15: every lead of new_leads has a row in the store with its id,
\* whether the raw id is present or absent.
C15_EmittedIsRecorded ==
    \A k \in 1..Len(new_leads) :
        \E j \in 1..Len(store) : store[j].lead_id = new_leads[k].lead_id

\* A failed attempt on the current page: a request was made and the page
\* was not yielded.
FailedAttempt == InRequest /\ requests' = requests + 1

\* The seconds a Retry-After header asks for, -1 when it is missing, empty
\* or not an integer.
HeaderSeconds(header) ==
    CASE header = "0" -> 0
      [] header = "7" -> 7
      [] OTHER -> -1

\* C16: a failed attempt that is retried after a 5xx or another
\* request-level failure sleeps 2^k seconds, k being the failed attempts
\* made on the page before it; after a 429 the sleep is the Retry-After
\* value when the header is present and an integer, and 2^k seconds
\* otherwise.
C16_BackoffDelays ==
    [][FailedAttempt =>
        /\ (n429' = n429 /\ pc' = "request") => slept' = 2 ^ Failed
        /\ n429' = n429 + 1 =>
            slept' = (IF HeaderSeconds(retry_after') >= 0
                      THEN HeaderSeconds(retry_after')
                      ELSE 2 ^ Failed)]_vars

\* The third failure on a page, a 429 whose Retry-After is not a number,
\* slept 4 seconds; the two before it were of the other kinds.
C16_Witness ==
    /\ Live /\ pc = "request"
    /\ n5xx = 1 /\ nfail = 1 /\ n429 = 1
    /\ attempt = 3
    /\ retry_after = "soon"
    /\ slept = 4

C17_FetchAllPureRead ==
    [][call'.op = "fetch_all" =>
        /\ store' = store
        /\ call'.limit = NoLimit => call'.rows = store
        /\ call'.limit >= 0 =>
            /\ Len(call'.rows) <= call'.limit
            /\ call'.rows = SubSeq(store, 1, Min(call'.limit, Len(store)))]_vars

\* No two rows of the store have the same id, the same non-empty email or
\* the same non-empty phone.
UniqueRows ==
    \A j, k \in 1..Len(store) :
        j # k =>
            /\ store[j].lead_id # store[k].lead_id
            /\ ~Falsy(store[j].email) => store[j].email # store[k].email
            /\ ~Falsy(store[j].phone) => store[j].phone # store[k].phone

\* C19: at every point of every run, completed or aborted, the rows of
\* the store are pairwise distinct in id, in non-empty email and in
\* non-empty phone, and every row has an id.
C19_StoreUniqueness ==
    /\ UniqueRows
    /\ \A j \in 1..Len(store) : ~Falsy(store[j].lead_id)

\* A first run was aborted after it had ingested one lead; the second run
\* skipped that lead, ingested another and completed: the store, which
\* started empty, holds the two rows.
C19_Witness ==
    /\ run = 2 /\ runs[1] = "raised"
    /\ pc = "done"
    /\ Len(store) = 2
    /\ \A j \in 1..Len(store) : store[j].lead_id # "L2"
    /\ Len(new_leads) = 1
    /\ store[2] = new_leads[1]
    /\ Len(db_log) = 3
    /\ db_log[1] = DbCall("is_seen", store[1])

====
